---- MODULE Spec2Model ----
(***************************************************************************)
(* Model of plan_trip_enhanced (src/app.py): the planner that picks the    *)
(* cheapest flight of a route, a hotel inside a flexible check-in window   *)
(* with a nearby-city fallback, a taxi in the hotel's city, and compares   *)
(* the total cost with the budget.                                         *)
(*                                                                         *)
(* Dates are day numbers, prices are integers, ratings are tenths of a     *)
(* star.  A catalog (the RDF graph) is a record of three sequences of      *)
(* offers; the order of a sequence is the store's iteration order, which   *)
(* decides the order of rows that tie on the ORDER BY key.                 *)
(***************************************************************************)
EXTENDS Integers, Sequences, FiniteSets, TLC

\* ------------------------------------------------------------------ bounds
MaxPrice == 2
MaxDay == 3
MaxFlex == 1
MaxBudget == 6

Prices == 1..MaxPrice
Days == 0..MaxDay
FlexDays == 0..MaxFlex
Budgets == 1..MaxBudget

\* Offers a catalog may hold: at most this many of each kind.
FlightSlots == 1..2
HotelSlots == 1..2
TaxiSlots == 1..2

FlightDays == 1..2
Ratings == {38, 42}
Departures == {"Chennai", "Pune"}
Arrivals == {"Delhi", "Mumbai"}
Airlines == <<"IndiGo", "Air India">>

\* ------------------------------------------------------- program constants
\* lines 217-218: the two fallback tiers, in listed order
nearby_cities_immediate == <<"Gurugram", "Noida">>
nearby_cities_region == <<"Ghaziabad", "Faridabad">>
nearby_groups == <<nearby_cities_immediate, nearby_cities_region>>

\* Python's None, for a variable that otherwise holds a dict
None == [uri |-> 0]

\* ---------------------------------------------------------------- helpers
Range(s) == {s[i] : i \in DOMAIN s}

\* A stable sort of seq by the keys key[i] (pairs, compared lexicographically):
\* Python's sorted(..., key=...) and SPARQL's ORDER BY over the store's order.
KeyLess(a, b) == a[1] < b[1] \/ (a[1] = b[1] /\ a[2] < b[2])

StableSort(seq, key) ==
  LET n == Len(seq)
      rank(i) == Cardinality({j \in 1..n : KeyLess(key[j], key[i])
                                           \/ (key[j] = key[i] /\ j < i)}) + 1
  IN  [p \in 1..n |-> seq[CHOOSE i \in 1..n : rank(i) = p]]

\* ORDER BY ASC(xsd:integer(?price))
OrderByPrice(rows) == StableSort(rows, [i \in DOMAIN rows |-> <<rows[i].price, 0>>])

\* sorted(..., key=lambda h: (h["price"], -h["rating"]))
SortPriceRating(hs) == StableSort(hs, [i \in DOMAIN hs |-> <<hs[i].price, 0 - hs[i].rating>>])

\* ----------------------------------------------------------- SPARQL queries
\* QueryFlights without its ORDER BY: the rows come in the store's order
QueryFlightsUnordered(g, dep, arr) ==
  LET Match(f) == f.departureCity = dep /\ f.arrivalCity = arr
      rows == SelectSeq(g.flights, Match)
  IN  [i \in DOMAIN rows |-> [uri |-> rows[i].uri, price |-> rows[i].price,
                              airline |-> rows[i].airline, date |-> rows[i].serviceDate]]

\* lines 135-157: flights of the route, cheapest first
QueryFlights(g, dep, arr) ==
  LET Match(f) == f.departureCity = dep /\ f.arrivalCity = arr
      rows == OrderByPrice(SelectSeq(g.flights, Match))
  IN  [i \in DOMAIN rows |-> [uri |-> rows[i].uri, price |-> rows[i].price,
                              airline |-> rows[i].airline, date |-> rows[i].serviceDate]]

\* lines 167-193 and 223-246: hotels located in a city, cheapest first
QueryHotels(g, city) ==
  LET Match(h) == h.location = city
      rows == OrderByPrice(SelectSeq(g.hotels, Match))
  IN  [i \in DOMAIN rows |-> [uri |-> rows[i].uri, price |-> rows[i].price,
                              rating |-> rows[i].rating, avail_date |-> rows[i].serviceDate]]

\* lines 267-280: every taxi, cheapest first
QueryTaxis(g) ==
  LET rows == OrderByPrice(g.taxis)
  IN  [i \in DOMAIN rows |-> [uri |-> rows[i].uri, price |-> rows[i].price, city |-> rows[i].city]]

\* lines 290-298: the location stored for a hotel uri (LIMIT 1); "None" when the
\* query has no row and ch_city keeps its initial None
QueryLocation(g, uri) ==
  LET rows == SelectSeq(g.hotels, LAMBDA h : h.uri = uri)
  IN  IF rows = <<>> THEN "None" ELSE rows[1].location

\* ------------------------------------------------------------- date logic
\* lines 129-132: datetime.fromisoformat(dep_date_str).date(), or today's date
\* when the string does not parse
ParseDate(str, now) == IF str.iso THEN str.day ELSE now

\* line 166 (and 251): window_end = flight_date + timedelta(days=date_flex_days)
WindowEnd(flight_date, flex) == flight_date + flex

\* InWindow with the window's last day left out
InWindowExclusive(avail, flight_date, window_end) ==
  avail < window_end /\ avail >= flight_date

\* lines 199 and 252: avail_date <= window_end and avail_date >= flight_date
InWindow(avail, flight_date, window_end) == avail <= window_end /\ avail >= flight_date

\* lines 201 and 253: hotels available on or before the flight date
EarlierAvailable(avail, flight_date) == avail <= flight_date

\* lines 194-196 and 247-249: the row with the earliest avail_date >= flight_date,
\* the first such row in query order; None when there is none
NextAvailableOf(rows, flight_date) ==
  LET S == {i \in DOMAIN rows : rows[i].avail_date >= flight_date}
  IN  IF S = {} THEN None
      ELSE rows[CHOOSE i \in S : \A j \in S :
                  rows[i].avail_date < rows[j].avail_date
                  \/ (rows[i].avail_date = rows[j].avail_date /\ i <= j)]

\* lines 199-201 and 252-253: the in-window rows, then the earlier-available rows
\* that are not already in the list
WithinWindow(rows, flight_date, window_end) ==
  LET InW(h) == InWindow(h.avail_date, flight_date, window_end)
      first == SelectSeq(rows, InW)
      Early(h) == EarlierAvailable(h.avail_date, flight_date) /\ h \notin Range(first)
  IN  first \o SelectSeq(rows, Early)

\* lines 203-206: remove duplicates by uri, keeping the first seen
RECURSIVE DedupByUri(_, _)
DedupByUri(hs, seen) ==
  IF hs = <<>> THEN <<>>
  ELSE IF Head(hs).uri \in seen THEN DedupByUri(Tail(hs), seen)
       ELSE <<Head(hs)>> \o DedupByUri(Tail(hs), seen \cup {Head(hs).uri})

\* lines 199-206: the arrival city's candidates after the window filter
Filtered(rows, flight_date, window_end) ==
  DedupByUri(WithinWindow(rows, flight_date, window_end), {})

\* lines 240-246: a nearby city's rows carry the city
NearCandidates(g, city) ==
  LET rows == QueryHotels(g, city)
  IN  [i \in DOMAIN rows |-> [uri |-> rows[i].uri, price |-> rows[i].price,
                              rating |-> rows[i].rating,
                              avail_date |-> rows[i].avail_date, city |-> city]]

\* ------------------------------------------------------------ taxi and cost
\* lines 284-298: the chosen hotel's city: the "city" key when the dict has one
\* (a nearby pick), else the location the graph stores for its uri
HotelCity(g, hotel) ==
  IF "city" \in DOMAIN hotel THEN hotel.city ELSE QueryLocation(g, hotel.uri)

\* lines 300-303: the first (cheapest) taxi of the city, None when there is none
TaxiInCity(taxi_candidates, ch_city) ==
  LET S == {i \in DOMAIN taxi_candidates : taxi_candidates[i].city = ch_city}
  IN  IF S = {} THEN None ELSE taxi_candidates[CHOOSE i \in S : \A j \in S : i <= j]

\* ChooseTaxi without the preference for the hotel's city
ChooseTaxiAnywhere(g, taxi_candidates, hotel) ==
  IF taxi_candidates # <<>> THEN taxi_candidates[1] ELSE None

\* lines 282-305: the taxi of the hotel's city, else the globally cheapest
ChooseTaxi(g, taxi_candidates, hotel) ==
  LET inCity == IF hotel # None THEN TaxiInCity(taxi_candidates, HotelCity(g, hotel))
                ELSE None
  IN  IF inCity = None /\ taxi_candidates # <<>> THEN taxi_candidates[1] ELSE inCity

\* line 311
TotalCost(flight, hotel, taxi) ==
  flight.price + hotel.price + (IF taxi # None THEN taxi.price ELSE 0)

\* StatusOf with an exclusive threshold
StatusOfStrict(total, bud) == IF total < bud THEN "OK" ELSE "OverBudget"

\* lines 320-323
StatusOf(total, bud) == IF total <= bud THEN "OK" ELSE "OverBudget"

\* lines 313-318: the explanation lines, as the values they are formatted from
Explanation(flight, hotel, method, taxi, total, bud) ==
  <<[line |-> "flight", airline |-> flight.airline, date |-> flight.date,
     price |-> flight.price],
    [line |-> "hotel", method |-> method, hotel |-> hotel.uri,
     avail_date |-> hotel.avail_date, price |-> hotel.price]>>
  \o (IF taxi # None
      THEN <<[line |-> "taxi", taxi |-> taxi.uri, city |-> taxi.city, price |-> taxi.price]>>
      ELSE <<>>)
  \o <<[line |-> "total", total_cost |-> total, budget |-> bud]>>

\* ------------------------------------------------------------------ state
VARIABLES
  graph,                \* g: the catalog built once by build_graph (line 351)
  departure, arrival, dep_date_str, budget, date_flex_days,   \* the call's arguments
  pc,                   \* the stage plan_trip_enhanced is about to run
  arrival_date,         \* line 130
  flight_candidates,    \* line 150
  best_flight,          \* line 162
  next_available,       \* line 183
  chosen_hotel,         \* line 208
  chosen_hotel_method,  \* line 209
  fallback_tried,       \* line 219
  grp, idx,             \* position of the two loops of lines 220-221
  chosen_taxi,          \* line 282
  result,               \* the dict the call returns
  queries,              \* history: the run_sparql calls made so far, in order
  prev                  \* history: the result of the previous call (resubmission)

vars == <<graph, departure, arrival, dep_date_str, budget, date_flex_days, pc,
          arrival_date, flight_candidates, best_flight, next_available, chosen_hotel,
          chosen_hotel_method, fallback_tried, grp, idx, chosen_taxi, result, queries,
          prev>>

inputs == <<graph, departure, arrival, dep_date_str, budget, date_flex_days>>

NoMethod == [tag |-> "None", city |-> ""]
NoResult == [status |-> "Pending"]
NoDate == 0 - 1

\* flight_date taken from the request's travel date instead of the flight
flight_date_of_request == arrival_date

\* flight_date (line 163) and window_end (line 166) of the call in progress
flight_date == best_flight.date
window_end == WindowEnd(flight_date, date_flex_days)

\* ------------------------------------------------------------ input spaces
\* A catalog of at most Cardinality(slots) offers drawn from attrs; the uri of an
\* offer is its position in the store.
Offers(slots, attrs) ==
  UNION {[1..n -> attrs] : n \in 0..Cardinality(slots)}

WithUri(offers) == [i \in DOMAIN offers |-> [uri |-> i] @@ offers[i]]

FlightAttrs(deps, arrs, prices, days) ==
  [departureCity : deps, arrivalCity : arrs, price : prices, serviceDate : days]

HotelAttrs(cities, prices, ratings, days) ==
  [location : cities, price : prices, rating : ratings, serviceDate : days]

TaxiAttrs(cities, prices) == [city : cities, price : prices]

\* lines 67-74: a flight also carries an airline, which no decision reads
WithAirline(fs) ==
  [i \in DOMAIN fs |-> [airline |-> Airlines[((i - 1) % Len(Airlines)) + 1]] @@ fs[i]]

Graphs(F, H, T) ==
  {[flights |-> WithAirline(WithUri(f)), hotels |-> WithUri(h), taxis |-> WithUri(t)] :
     f \in F, h \in H, t \in T}

DateStrs == [iso : {TRUE}, day : Days] \cup {[iso |-> FALSE, day |-> 0]}

\* The values of the call's locals before the call has assigned them
Fresh ==
  /\ pc = "FlightLookup"
  /\ arrival_date = NoDate
  /\ flight_candidates = <<>>
  /\ best_flight = None
  /\ next_available = None
  /\ chosen_hotel = None
  /\ chosen_hotel_method = NoMethod
  /\ fallback_tried = <<>>
  /\ grp = 1
  /\ idx = 1
  /\ chosen_taxi = None
  /\ result = NoResult
  /\ queries = <<>>

\* The state when plan_trip_enhanced is entered (line 367) with a catalog of G and
\* arguments from the given sets
InitWith(G, deps, arrs, dates, budgets, flexes) ==
  /\ graph \in G
  /\ departure \in deps
  /\ arrival \in arrs
  /\ dep_date_str \in dates
  /\ budget \in budgets
  /\ date_flex_days \in flexes
  /\ prev = NoResult
  /\ Fresh

\* ---------------------------------------------------------------- returns
\* line 159
NoFlightsReturn == [status |-> "NoFlights", message |-> "No flights found for route."]

\* NoHotelReturn carrying the selections made so far
NoHotelReturnCarrying ==
  [status |-> "NoHotelAnywhere",
   message |-> "No hotel found in city or nearby; recommend adjusting date or city.",
   flight |-> best_flight, taxi |-> chosen_taxi]

\* line 309
NoHotelReturn ==
  [status |-> "NoHotelAnywhere",
   message |-> "No hotel found in city or nearby; recommend adjusting date or city."]

\* lines 311-333
ItineraryReturn ==
  LET total_cost == TotalCost(best_flight, chosen_hotel, chosen_taxi)
  IN  [status |-> StatusOf(total_cost, budget),
       flight |-> best_flight,
       hotel |-> chosen_hotel,
       taxi |-> chosen_taxi,
       total_cost |-> total_cost,
       explanation |-> Explanation(best_flight, chosen_hotel, chosen_hotel_method,
                                   chosen_taxi, total_cost, budget),
       flight_candidates |-> flight_candidates]

\* ---------------------------------------------------------------- actions
Log(q) == queries' = Append(queries, q)

\* lines 129-163: parse the date (now: datetime.now().date(), which is read only
\* when the string does not parse), query the route's flights, take the cheapest
FlightLookup ==
  /\ pc = "FlightLookup"
  /\ \E now \in (IF dep_date_str.iso THEN {NoDate} ELSE Days) :
       arrival_date' = ParseDate(dep_date_str, now)
  /\ LET cands == QueryFlights(graph, departure, arrival)
     IN  /\ flight_candidates' = cands
         /\ Log([q |-> "flights", city |-> arrival])
         /\ IF cands = <<>>
            THEN /\ result' = NoFlightsReturn
                 /\ pc' = "Done"
                 /\ UNCHANGED best_flight
            ELSE /\ best_flight' = cands[1]
                 /\ pc' = "HotelLookup"
                 /\ UNCHANGED result
  /\ UNCHANGED <<inputs, next_available, chosen_hotel, chosen_hotel_method,
                 fallback_tried, grp, idx, chosen_taxi, prev>>

\* lines 166-219: the arrival city's hotels inside the window
HotelLookup ==
  /\ pc = "HotelLookup"
  /\ LET hotel_candidates == QueryHotels(graph, arrival)
         filtered == Filtered(hotel_candidates, flight_date, window_end)
     IN  /\ Log([q |-> "hotels", city |-> arrival])
         /\ next_available' = NextAvailableOf(hotel_candidates, flight_date)
         /\ IF filtered # <<>>
            THEN /\ chosen_hotel' = SortPriceRating(filtered)[1]
                 /\ chosen_hotel_method' = [tag |-> "ExactCityWithinWindow", city |-> ""]
                 /\ pc' = "TaxiLookup"
            ELSE /\ UNCHANGED <<chosen_hotel, chosen_hotel_method>>
                 /\ pc' = "NearbyLookup"
  /\ UNCHANGED <<inputs, arrival_date, flight_candidates, best_flight, fallback_tried,
                 grp, idx, chosen_taxi, result, prev>>

\* line 259: a city's next-available hotel becomes the provisional pick only when
\* nothing has been chosen yet
TakesProvisional(next_avail_near, hotel, method) ==
  next_avail_near # None /\ hotel = None /\ method = NoMethod

\* lines 263-264: after a tier's cities, leave the cascade when a hotel is chosen
LeavesCascade(hotel) == hotel # None

\* lines 220-264: one iteration of the inner loop, for the city at (grp, idx),
\* with the loop exits that follow it
NearbyLookup ==
  /\ pc = "NearbyLookup"
  /\ LET city == nearby_groups[grp][idx]
         near_candidates == NearCandidates(graph, city)
         next_avail_near == NextAvailableOf(near_candidates, flight_date)
         within_near == WithinWindow(near_candidates, flight_date,
                                     WindowEnd(flight_date, date_flex_days))
         found == within_near # <<>>
         provisional == TakesProvisional(next_avail_near, chosen_hotel,
                                         chosen_hotel_method)
         hotel == IF found THEN SortPriceRating(within_near)[1]
                  ELSE IF provisional THEN next_avail_near ELSE chosen_hotel
         lastOfGroup == idx = Len(nearby_groups[grp])
     IN  /\ fallback_tried' = Append(fallback_tried, city)
         /\ Log([q |-> "hotels", city |-> city])
         /\ chosen_hotel' = hotel
         /\ chosen_hotel_method' =
              IF found THEN [tag |-> "NearbyCity", city |-> city]
              ELSE IF provisional THEN [tag |-> "NearbyCityNextAvail", city |-> city]
              ELSE chosen_hotel_method
         /\ IF ~found /\ ~lastOfGroup
            THEN /\ idx' = idx + 1
                 /\ UNCHANGED <<grp, pc>>
            ELSE IF LeavesCascade(hotel) \/ grp = Len(nearby_groups)
            THEN /\ pc' = "TaxiLookup"
                 /\ UNCHANGED <<grp, idx>>
            ELSE /\ grp' = grp + 1
                 /\ idx' = 1
                 /\ UNCHANGED pc
  /\ UNCHANGED <<inputs, arrival_date, flight_candidates, best_flight, next_available,
                 chosen_taxi, result, prev>>

\* TaxiLookup that returns NoHotelAnywhere at once when no hotel was chosen
TaxiLookupAfterHotelOnly ==
  /\ pc = "TaxiLookup"
  /\ IF chosen_hotel = None
     THEN /\ result' = NoHotelReturn
          /\ pc' = "Done"
          /\ UNCHANGED <<queries, chosen_taxi>>
     ELSE /\ queries' = queries \o <<[q |-> "taxis", city |-> ""]>>
                        \o (IF "city" \notin DOMAIN chosen_hotel
                            THEN <<[q |-> "location", city |-> ""]>> ELSE <<>>)
          /\ chosen_taxi' = ChooseTaxi(graph, QueryTaxis(graph), chosen_hotel)
          /\ pc' = "CostEvaluation"
          /\ UNCHANGED result
  /\ UNCHANGED <<inputs, arrival_date, flight_candidates, best_flight, next_available,
                 chosen_hotel, chosen_hotel_method, fallback_tried, grp, idx, prev>>

\* lines 266-305: query the taxis and choose one; the hotel's location is read
\* from the graph when the chosen hotel carries no city
TaxiLookup ==
  /\ pc = "TaxiLookup"
  /\ LET taxi_candidates == QueryTaxis(graph)
         asksLocation == chosen_hotel # None /\ "city" \notin DOMAIN chosen_hotel
     IN  /\ queries' = queries \o <<[q |-> "taxis", city |-> ""]>>
                       \o (IF asksLocation THEN <<[q |-> "location", city |-> ""]>>
                           ELSE <<>>)
         /\ chosen_taxi' = ChooseTaxi(graph, taxi_candidates, chosen_hotel)
  /\ pc' = "CostEvaluation"
  /\ UNCHANGED <<inputs, arrival_date, flight_candidates, best_flight, next_available,
                 chosen_hotel, chosen_hotel_method, fallback_tried, grp, idx, result, prev>>

\* lines 307-333: no hotel ends the call; else the total, the status, the result
CostEvaluation ==
  /\ pc = "CostEvaluation"
  /\ IF chosen_hotel = None
     THEN result' = NoHotelReturn
     ELSE result' = ItineraryReturn
  /\ pc' = "Done"
  /\ UNCHANGED <<inputs, arrival_date, flight_candidates, best_flight, next_available,
                 chosen_hotel, chosen_hotel_method, fallback_tried, grp, idx,
                 chosen_taxi, queries, prev>>

Next == FlightLookup \/ HotelLookup \/ NearbyLookup \/ TaxiLookup \/ CostEvaluation

\* lines 364-367: the form is submitted again with another travel date and the
\* same other arguments, once; the first call's result is kept for comparison
Resubmit ==
  /\ pc = "Done"
  /\ prev = NoResult
  /\ prev' = result
  /\ \E d \in DateStrs \ {dep_date_str} : dep_date_str' = d
  /\ pc' = "FlightLookup"
  /\ arrival_date' = NoDate
  /\ flight_candidates' = <<>>
  /\ best_flight' = None
  /\ next_available' = None
  /\ chosen_hotel' = None
  /\ chosen_hotel_method' = NoMethod
  /\ fallback_tried' = <<>>
  /\ grp' = 1
  /\ idx' = 1
  /\ chosen_taxi' = None
  /\ result' = NoResult
  /\ queries' = <<>>
  /\ UNCHANGED <<graph, departure, arrival, budget, date_flex_days>>

NextResubmit == Next \/ Resubmit

\* ---------------------------------------------------------- specifications
OneFlight == {<<[departureCity |-> "Chennai", arrivalCity |-> "Delhi", price |-> 1,
                 serviceDate |-> 1]>>}
FallbackCities == Range(nearby_cities_immediate) \cup Range(nearby_cities_region)
SomeDate == {[iso |-> TRUE, day |-> 1]}

\* Every stage, with every budget: catalogs of at most one flight, one hotel, one taxi
Init ==
  InitWith(Graphs(Offers({1}, FlightAttrs({"Chennai"}, Arrivals, Prices, {1})),
                  Offers({1}, HotelAttrs({"Delhi", "Gurugram", "Ghaziabad"}, Prices, {40}, Days)),
                  Offers({1}, TaxiAttrs({"Delhi", "Gurugram"}, Prices))),
           {"Chennai"}, {"Delhi"}, SomeDate, Budgets, FlexDays)

Spec == Init /\ [][Next]_vars

\* The call runs to its return (it is synchronous and single-threaded: a stage that
\* can run does run), over catalogs of at most one flight, two hotels, one taxi
InitFair ==
  InitWith(Graphs(Offers({1}, FlightAttrs({"Chennai"}, Arrivals, {1}, {1})),
                  Offers(HotelSlots, HotelAttrs({"Delhi", "Gurugram", "Ghaziabad"}, {1}, {40},
                                                {1, MaxDay})),
                  Offers({1}, TaxiAttrs({"Delhi"}, Prices))),
           {"Chennai"}, {"Delhi"}, SomeDate, {2, 3}, {0})

FairSpec == InitFair /\ [][Next]_vars /\ WF_vars(Next)

\* Flights: every catalog of at most two flights over two departures and arrivals
InitFlights ==
  InitWith(Graphs(Offers(FlightSlots, FlightAttrs(Departures, Arrivals, Prices, FlightDays)),
                  Offers({1}, HotelAttrs({"Delhi", "Noida"}, {1}, {40}, {1, MaxDay})),
                  Offers({1}, TaxiAttrs({"Delhi"}, {1}))),
           Departures, Arrivals, SomeDate, {2, 3}, {0})

SpecFlights == InitFlights /\ [][Next]_vars

\* Hotels: every catalog of at most two hotels over the arrival city, the four
\* fallback cities and an unrelated city
InitCascade ==
  InitWith(Graphs(OneFlight,
                  Offers(HotelSlots, HotelAttrs({"Delhi", "Mumbai"} \cup FallbackCities,
                                                Prices, Ratings, Days)),
                  Offers({1}, TaxiAttrs({"Delhi"}, {1}))),
           {"Chennai"}, {"Delhi"}, SomeDate, {3}, {0, MaxFlex})

SpecCascade == InitCascade /\ [][Next]_vars

\* Taxis: every catalog of at most two taxis, with hotels in the arrival city, in
\* fallback cities, or nowhere
InitTaxi ==
  InitWith(Graphs(OneFlight,
                  Offers(HotelSlots, HotelAttrs({"Delhi", "Gurugram", "Ghaziabad"}, {1}, {40},
                                                {1, MaxDay})),
                  Offers(TaxiSlots, TaxiAttrs({"Delhi", "Gurugram", "Ghaziabad", "Mumbai"},
                                              Prices))),
           {"Chennai"}, {"Delhi"}, SomeDate, {3}, {0, MaxFlex})

SpecTaxi == InitTaxi /\ [][Next]_vars

\* Travel dates: every travel date, valid or not, and one resubmission with another
InitDate ==
  InitWith(Graphs(Offers(FlightSlots, FlightAttrs({"Chennai"}, {"Delhi"}, Prices, FlightDays)),
                  Offers({1}, HotelAttrs({"Delhi", "Gurugram"}, {1}, {40}, Days)),
                  Offers({1}, TaxiAttrs({"Delhi"}, {1}))),
           {"Chennai"}, {"Delhi"}, DateStrs, {3}, FlexDays)

SpecDate == InitDate /\ [][NextResubmit]_vars

\* ------------------------------------------------------------------ claims
Returned == pc = "Done"
Booked == Returned /\ result.status \in {"OK", "OverBudget"}

\* The offers of the catalog that match the request's route
MatchingFlights ==
  {i \in DOMAIN graph.flights :
     /\ graph.flights[i].departureCity = departure
     /\ graph.flights[i].arrivalCity = arrival}

\* C1: whenever the catalog holds a flight of the requested route, the flight the
\* planner selects (and returns) is a flight of that route whose price is the
\* minimum over all flights of the route.
C1_CheapestFlight ==
  (pc # "FlightLookup" /\ MatchingFlights # {}) =>
    /\ best_flight # None
    /\ \E i \in MatchingFlights :
         /\ graph.flights[i].uri = best_flight.uri
         /\ graph.flights[i].price = best_flight.price
    /\ \A j \in MatchingFlights : best_flight.price <= graph.flights[j].price
    /\ Booked => result.flight = best_flight

\* C1 witness: two flights of the route, the dearer one first in the store, and
\* the second one is the flight of the returned itinerary.
C1_Witness ==
  /\ Booked
  /\ Cardinality(MatchingFlights) = 2
  /\ graph.flights[1].price > graph.flights[2].price
  /\ result.flight.uri = 2

\* C5: a returned itinerary's total_cost is the sum of the prices of the offers it
\* carries, and its status is OK exactly when total_cost <= budget.
C5_TotalAndStatus ==
  Booked =>
    /\ result.total_cost = result.flight.price + result.hotel.price
                           + (IF result.taxi # None THEN result.taxi.price ELSE 0)
    /\ (result.status = "OK") <=> (result.total_cost <= budget)
    /\ (result.total_cost = budget) => result.status = "OK"
    /\ (result.total_cost = budget + 1) => result.status = "OverBudget"

\* C5 witness: an itinerary with a taxi whose total equals the budget, returned OK.
C5_Witness ==
  /\ Booked
  /\ result.taxi # None
  /\ result.total_cost = budget
  /\ result.status = "OK"

\* The city the catalog stores for the chosen hotel, and the taxis of that city
ChosenHotelLocation == graph.hotels[chosen_hotel.uri].location
TaxisIn(city) == {i \in DOMAIN graph.taxis : graph.taxis[i].city = city}
IsCheapestOf(taxi, S) ==
  /\ taxi # None
  /\ \E i \in S : graph.taxis[i].uri = taxi.uri /\ graph.taxis[i].price = taxi.price
                  /\ graph.taxis[i].city = taxi.city
  /\ \A j \in S : taxi.price <= graph.taxis[j].price

\* C8: once a hotel is selected, the selected taxi is a cheapest taxi of the
\* selected hotel's city (the fallback city for a nearby pick); with no taxi in that
\* city it is a cheapest taxi of the catalog; it is absent only when the catalog has
\* no taxi, and the call still returns OK or OverBudget.
C8_TaxiOfHotelCity ==
  (pc \in {"CostEvaluation", "Done"} /\ chosen_hotel # None) =>
    /\ "city" \in DOMAIN chosen_hotel => chosen_hotel.city = ChosenHotelLocation
    /\ IF TaxisIn(ChosenHotelLocation) # {}
       THEN IsCheapestOf(chosen_taxi, TaxisIn(ChosenHotelLocation))
       ELSE IF graph.taxis # <<>>
       THEN IsCheapestOf(chosen_taxi, DOMAIN graph.taxis)
       ELSE chosen_taxi = None
    /\ Returned => (Booked /\ result.taxi = chosen_taxi /\ result.hotel = chosen_hotel)

\* C8 witness: a nearby pick in Gurugram takes Gurugram's taxi although the arrival
\* city has a cheaper one.
C8_Witness ==
  /\ Booked
  /\ chosen_hotel_method.tag = "NearbyCity"
  /\ chosen_hotel_method.city = "Gurugram"
  /\ result.taxi # None
  /\ result.taxi.city = "Gurugram"
  /\ \E i \in TaxisIn(arrival) : graph.taxis[i].price < result.taxi.price

\* The shape of what a call returns
ResultShape ==
  /\ ~Returned => result = NoResult
  /\ Returned =>
       /\ result.status \in {"OK", "OverBudget", "NoFlights", "NoHotelAnywhere"}
       /\ result.status \in {"OK", "OverBudget"} =>
            /\ {"flight", "hotel", "taxi", "total_cost"} \subseteq DOMAIN result
            /\ result.flight # None
            /\ result.hotel # None
       /\ result.status \in {"NoFlights", "NoHotelAnywhere"} =>
            DOMAIN result = {"status", "message"}

\* C9: every call returns, with exactly one of the four statuses; an OK or
\* OverBudget result carries a flight and a hotel, a NoFlights or NoHotelAnywhere
\* result carries no flight, hotel or taxi.
C9_ReturnsOneStatus == []ResultShape /\ <>Returned

\* C9 witness: a call that found a flight and no hotel has returned NoHotelAnywhere
\* although a taxi had been chosen.
C9_Witness ==
  /\ Returned
  /\ result.status = "NoHotelAnywhere"
  /\ best_flight # None
  /\ chosen_taxi # None

CascadeOrder == nearby_cities_immediate \o nearby_cities_region
HotelsIn(city) == {i \in DOMAIN graph.hotels : graph.hotels[i].location = city}

\* A hotel is in the window of the call in progress: inside [flight_date, window_end]
\* or available on or before the flight date
HotelInWindow(i) ==
  \/ InWindow(graph.hotels[i].serviceDate, best_flight.date,
              best_flight.date + date_flex_days)
  \/ graph.hotels[i].serviceDate <= best_flight.date
\* A hotel is next-available: its available-from date lies after the window
HotelNextAvail(i) == graph.hotels[i].serviceDate > best_flight.date + date_flex_days

HasInWindow(city) == \E i \in HotelsIn(city) : HotelInWindow(i)
HasNextAvailOnly(city) == ~HasInWindow(city) /\ \E i \in HotelsIn(city) : HotelNextAvail(i)

\* The hotel stage is over for a call that found a flight
HotelStageOver == pc \in {"TaxiLookup", "CostEvaluation", "Done"} /\ best_flight # None
CascadeOver == HotelStageOver /\ ~HasInWindow(arrival)

Tried(n) == [k \in 1..n |-> CascadeOrder[k]]
IsCheapestInWindowOf(hotel, city) ==
  \E i \in HotelsIn(city) :
    /\ HotelInWindow(i)
    /\ graph.hotels[i].uri = hotel.uri
    /\ \A j \in HotelsIn(city) : HotelInWindow(j) =>
         \/ graph.hotels[i].price < graph.hotels[j].price
         \/ /\ graph.hotels[i].price = graph.hotels[j].price
            /\ graph.hotels[i].rating >= graph.hotels[j].rating

\* C2: a provisional next-available pick made for an earlier fallback city does not
\* stop the cascade: when a later city, of the same tier or of the region tier, is
\* the first with an in-window hotel, every city up to it is queried and its hotel
\* is the final selection, method NearbyCity:<city>.
C2_ProvisionalDoesNotStop ==
  CascadeOver =>
    \A i, j \in DOMAIN CascadeOrder :
      ( /\ i < j
        /\ HasNextAvailOnly(CascadeOrder[i])
        /\ HasInWindow(CascadeOrder[j])
        /\ \A k \in 1..(j - 1) : ~HasInWindow(CascadeOrder[k]) )
      => /\ fallback_tried = Tried(j)
         /\ chosen_hotel_method = [tag |-> "NearbyCity", city |-> CascadeOrder[j]]
         /\ IsCheapestInWindowOf(chosen_hotel, CascadeOrder[j])

\* C3: with no in-window hotel in the arrival city, the fallback cities are visited
\* in the order immediate tier, region tier, each in listed order; the first city
\* with an in-window hotel supplies the selection (its cheapest in-window hotel, the
\* higher rating on a price tie) and ends the cascade.
C3_FirstInWindowCityWins ==
  CascadeOver =>
    /\ \E n \in 1..Len(CascadeOrder) : fallback_tried = Tried(n)
    /\ \A j \in DOMAIN CascadeOrder :
         (HasInWindow(CascadeOrder[j]) /\ \A k \in 1..(j - 1) : ~HasInWindow(CascadeOrder[k]))
         => /\ fallback_tried = Tried(j)
            /\ chosen_hotel_method = [tag |-> "NearbyCity", city |-> CascadeOrder[j]]
            /\ IsCheapestInWindowOf(chosen_hotel, CascadeOrder[j])

\* The catalog's only hotel, in a city the hotel matcher queries
OnlyHotelQueried ==
  /\ Returned
  /\ best_flight # None
  /\ Len(graph.hotels) = 1
  /\ graph.hotels[1].location \in {arrival} \cup Range(CascadeOrder)
OnlyHotelSelected == Booked /\ result.hotel.uri = graph.hotels[1].uri

C7_NoHotelOnlyWhenNone ==
  (Returned /\ best_flight # None) =>
    LET offers == \E c \in {arrival} \cup Range(CascadeOrder) :
                    \E i \in HotelsIn(c) : HotelInWindow(i) \/ HotelNextAvail(i)
    IN  /\ (result.status = "NoHotelAnywhere") <=> ~offers
        /\ offers => (Booked /\ result.hotel # None)

\* ------------------------------------------------ claims about stage order
StageOfQuery(query) ==
  CASE query.q = "flights" -> 1
    [] query.q = "hotels" -> 2
    [] OTHER -> 3
Asked(kind) == \E i \in DOMAIN queries : queries[i].q = kind

\* The lookups happen in the order flights, hotels, taxis, the flight lookup first,
\* and the cost is evaluated only after a taxi lookup
StagesInOrder ==
  /\ \A i, j \in DOMAIN queries : i < j => StageOfQuery(queries[i]) <= StageOfQuery(queries[j])
  /\ queries # <<>> => queries[1].q = "flights"
  /\ Cardinality({i \in DOMAIN queries : queries[i].q \in {"flights", "taxis"}}) <= 2
  /\ Booked => (Asked("flights") /\ Asked("hotels") /\ Asked("taxis"))
NoFlightsShortCircuits ==
  (Returned /\ result.status = "NoFlights") => queries = <<[q |-> "flights", city |-> arrival]>>

\* C6, as claimed: the stages run in the order FlightLookup, HotelLookup, TaxiLookup,
\* CostEvaluation; with no flight there is no hotel or taxi lookup, and with no
\* hotel the call returns NoHotelAnywhere without a taxi lookup.
C6_ShortCircuit ==
  /\ StagesInOrder
  /\ NoFlightsShortCircuits
  /\ (Returned /\ result.status = "NoHotelAnywhere") => ~Asked("taxis")

\* C6, amended: the same order and the same short-circuit on NoFlights; with no
\* hotel, the taxi lookup is still performed (its pick is discarded) before the call
\* returns NoHotelAnywhere, and no cost is evaluated.
C6_ShortCircuitAmended ==
  /\ StagesInOrder
  /\ NoFlightsShortCircuits
  /\ (Returned /\ result.status = "NoHotelAnywhere") =>
       /\ Asked("hotels")
       /\ queries[Len(queries)].q = "taxis"
       /\ "total_cost" \notin DOMAIN result
       /\ chosen_taxi = (IF graph.taxis = <<>> THEN None ELSE QueryTaxis(graph)[1])

\* C6 witness: every fallback city was asked for hotels, none was found, the taxis
\* were queried last and the call returned NoHotelAnywhere.
C6_Witness ==
  /\ Returned
  /\ result.status = "NoHotelAnywhere"
  /\ Len(queries) = 3 + Len(CascadeOrder)
  /\ queries[Len(queries)].q = "taxis"
  /\ graph.taxis # <<>>

====
